---- MODULE Spec2Model ----
(***************************************************************************)
(* State-machine model of core/rag_pipeline.py (class ServiceDeskRAG) and  *)
(* of the single pipeline instance app.py keeps per process.               *)
(*                                                                         *)
(* The file system (knowledge_base/ directory, vector_store.index,         *)
(* documents.json), the pipeline object, the retrieval step, the retry     *)
(* loop of _call_gemini_with_backoff and the result of query are state.    *)
(* The sentence-embedding model and the FAISS flat L2 index are black      *)
(* boxes of the code; they are modelled by what the code relies on: a      *)
(* deterministic text -> vector map and an exact k-nearest-neighbour       *)
(* search that returns exactly k labels, -1 where no row was found.        *)
(***************************************************************************)
EXTENDS Integers, Sequences, FiniteSets, TLC

VARIABLES
    kbDir,        \* knowledge_base/: [exists, files]
    indexFile,    \* vector_store.index: [present, rows]
    docsFile,     \* documents.json: [present, docs]
    inst,         \* the ServiceDeskRAG object of the process
    lastInit,     \* how the last construction went
    pc,           \* position of the single caller
    caller,       \* who runs the generation call: "query" or "direct"
    kArg,         \* k of the retrieval in progress
    qArg,         \* question of the retrieval in progress
    chunks,       \* retrieved_chunks of the last retrieval
    sources,      \* source_files of the last retrieval
    hits,         \* indices[0] of the last search
    retries,      \* parameter retries of the generation call
    delay0,       \* parameter delay of the generation call, as passed
    delay,        \* local variable delay
    attempt,      \* loop variable i
    resps,        \* responses of the endpoint in this call, in order
    waits,        \* time.sleep arguments of this call, in order
    outcome       \* what the last operation handed to its caller

vars == << kbDir, indexFile, docsFile, inst, lastInit, pc, caller, kArg, qArg,
           chunks, sources, hits, retries, delay0, delay, attempt, resps,
           waits, outcome >>

fsVars == << kbDir, indexFile, docsFile >>
genVars == << caller, retries, delay0, delay, attempt, resps, waits >>
retVars == << kArg, qArg, chunks, sources, hits >>

-----------------------------------------------------------------------------
(* Bounds of the model *)

\* largest k of a direct retrieval call
MaxK == 3
\* largest initial delay of a direct generation call
MaxDelay == 3
\* largest retries argument of a direct generation call
MaxRetries == 5

(* Program constants *)

\* def _call_gemini_with_backoff(self, payload, retries=5, delay=2)
DefaultRetries == 5
DefaultDelay == 2
\* self._retrieve_context(user_question, k=1)
QueryK == 1

-----------------------------------------------------------------------------
(* The corpus *)

\* directory entries the environment may create in knowledge_base/
Names == {"printer.txt", "readme.md", "vpn.txt"}

\* Python string order on these names, ascending
LexOrder == << "printer.txt", "readme.md", "vpn.txt" >>

\* f.endswith(".txt")
EndsWithTxt(f) == f \in {"printer.txt", "vpn.txt"}

\* f.read() of a corpus file
Content(f) ==
    CASE f = "printer.txt" -> "Install the printer driver from the IT portal."
      [] f = "vpn.txt" -> "Restart the VPN client and re-enter your credentials."
      [] OTHER -> "internal notes"

\* questions the caller may ask
Questions == {"My VPN won't connect", "printer setup", "password reset"}

\* SentenceTransformer.encode of one text: deterministic, one-dimensional here
Encode(t) ==
    CASE t = "Install the printer driver from the IT portal." -> 0
      [] t = "Restart the VPN client and re-enter your credentials." -> 4
      [] t = "internal notes" -> 9
      [] t = "My VPN won't connect" -> 5
      [] t = "printer setup" -> 1
      [] t = "password reset" -> 2
      [] OTHER -> 7

\* embedding_model.encode(self.documents)
EncodeAll(docs) == [n \in 1..Len(docs) |-> Encode(docs[n])]

Rank(f) == CHOOSE n \in 1..Len(LexOrder) : LexOrder[n] = f

RECURSIVE SortedSeq(_)
\* sorted(S) for a set of names
SortedSeq(S) ==
    IF S = {} THEN << >>
    ELSE LET m == CHOOSE f \in S : \A g \in S : Rank(f) <= Rank(g)
         IN  << m >> \o SortedSeq(S \ {m})

RECURSIVE Reversed(_)
Reversed(sq) == IF sq = << >> THEN << >> ELSE Reversed(Tail(sq)) \o << Head(sq) >>

\* the listing taken in another order than the one retrieval sorts it into
LoadFilenames_Unsorted(files) == Reversed(SortedSeq({f \in files : EndsWithTxt(f)}))

\* line 53: sorted([f for f in os.listdir(KNOWLEDGE_BASE_DIR) if f.endswith(".txt")])
LoadFilenames(files) == SortedSeq({f \in files : EndsWithTxt(f)})

\* line 96: the same expression, evaluated again at retrieval time
SourceFilenames(files) == SortedSeq({f \in files : EndsWithTxt(f)})

\* _load_documents: the texts of the sorted .txt files
LoadDocuments(files) ==
    LET names == LoadFilenames(files)
    IN  [n \in 1..Len(names) |-> Content(names[n])]

-----------------------------------------------------------------------------
(* Python list indexing and the FAISS search *)

\* lst[i] does not raise IndexError
PyValid(lst, i) == i < Len(lst) /\ i >= -Len(lst)

\* lst[i], negative i counting from the end
PyGet(lst, i) == IF i >= 0 THEN lst[i + 1] ELSE lst[Len(lst) + i + 1]

\* squared Euclidean distance of IndexFlatL2
Dist(a, b) == (a - b) * (a - b)

RECURSIVE Nearest(_, _, _, _)
\* the k labels of an exact search among the 0-based rows in left; -1 pads
Nearest(rows, qv, left, k) ==
    IF k = 0 THEN << >>
    ELSE IF left = {} THEN << -1 >> \o Nearest(rows, qv, left, k - 1)
    ELSE LET b == CHOOSE i \in left : \A j \in left :
                      \/ Dist(rows[i + 1], qv) < Dist(rows[j + 1], qv)
                      \/ Dist(rows[i + 1], qv) = Dist(rows[j + 1], qv) /\ i <= j
         IN  << b >> \o Nearest(rows, qv, left \ {b}, k - 1)

\* self.index.search(query_embedding, k): indices[0]
Search(rows, qv, k) == Nearest(rows, qv, 0..(Len(rows) - 1), k)

-----------------------------------------------------------------------------
(* Values *)

NoFiles == [exists |-> FALSE, files |-> {}]
NoIndexFile == [present |-> FALSE, rows |-> << >>]
NoDocsFile == [present |-> FALSE, docs |-> << >>]
NoInstance == [alive |-> FALSE, hasIndex |-> FALSE, index |-> << >>, documents |-> << >>]

NoOutcome == [kind |-> "none", answer |-> "", sources |-> << >>]
Returned(a, s) == [kind |-> "returned", answer |-> a, sources |-> s]
Raised(e) == [kind |-> "raised", answer |-> e, sources |-> << >>]

NoRelevantInfo == "I'm sorry, I could not find any relevant information."
InvalidResponse == "I'm sorry, I received an invalid response from the AI model."
GenerationError == "I'm sorry, I encountered an error while generating a response."
GeneratedText == "generated answer"

\* what one requests.post can come back with
Responses == { "transport_error", "http_500", "http_204", "http_200_text",
               "http_200_no_candidates", "http_200_bad_structure",
               "http_200_not_json" }

Is2xx(r) == r \in { "http_204", "http_200_text", "http_200_no_candidates",
                    "http_200_bad_structure", "http_200_not_json" }

\* response.status_code == 200
StatusIs200(r) == r \in { "http_200_text", "http_200_no_candidates",
                          "http_200_bad_structure", "http_200_not_json" }

-----------------------------------------------------------------------------
(* Retrieval: _retrieve_context *)

RetRaised(e) == [raised |-> TRUE, exc |-> e, hits |-> << >>, chunks |-> << >>,
                 sources |-> << >>]

\* strictK: the installed faiss asserts k > 0 in search (newer wheels do,
\* older ones return an empty row); the code pins no version
RetrieveContext(self, dir, q, k, strictK) ==
    IF ~self.hasIndex
    THEN RetRaised("AttributeError")          \* self.index was never assigned
    ELSE IF k = 0 /\ strictK
    THEN RetRaised("AssertionError")
    ELSE LET idx == Search(self.index, Encode(q), k)
         IN  IF \E n \in 1..Len(idx) : ~PyValid(self.documents, idx[n])
             THEN RetRaised("IndexError")
             ELSE IF ~dir.exists
             THEN RetRaised("FileNotFoundError")   \* os.listdir
             ELSE LET fn == SourceFilenames(dir.files)
                      kept == SelectSeq(idx, LAMBDA i : i < Len(fn))
                  IN  IF \E n \in 1..Len(kept) : ~PyValid(fn, kept[n])
                      THEN RetRaised("IndexError")
                      ELSE [raised |-> FALSE, exc |-> "", hits |-> idx,
                            chunks |-> [n \in 1..Len(idx) |->
                                           PyGet(self.documents, idx[n])],
                            sources |-> [n \in 1..Len(kept) |-> PyGet(fn, kept[n])]]

-----------------------------------------------------------------------------
(* Construction: __init__, _load_documents, _build_vector_store *)

\* "or" in place of "and" in the test of __init__
ArtifactsPresent_Either == indexFile.present \/ docsFile.present

\* os.path.exists(VECTOR_STORE_FILE) and os.path.exists(DOCUMENTS_FILE)
ArtifactsPresent == indexFile.present /\ docsFile.present

\* the branch of __init__ that reads the two files
LoadStore ==
    /\ inst' = [alive |-> TRUE, hasIndex |-> TRUE, index |-> indexFile.rows,
                documents |-> docsFile.docs]
    /\ lastInit' = "loaded"
    /\ UNCHANGED fsVars

\* _build_vector_store
BuildVectorStore ==
    IF ~kbDir.exists
    THEN \* os.listdir raises; app.py reports it and stops, no pipeline exists
         /\ lastInit' = "raised"
         /\ UNCHANGED << inst, fsVars >>
    ELSE LET docs == LoadDocuments(kbDir.files)
         IN  IF docs = << >>
             THEN \* early return: self.index is not assigned, nothing is written
                  /\ inst' = [alive |-> TRUE, hasIndex |-> FALSE, index |-> << >>,
                              documents |-> << >>]
                  /\ lastInit' = "built"
                  /\ UNCHANGED fsVars
             ELSE /\ inst' = [alive |-> TRUE, hasIndex |-> TRUE,
                              index |-> EncodeAll(docs), documents |-> docs]
                  /\ indexFile' = [present |-> TRUE, rows |-> EncodeAll(docs)]
                  /\ docsFile' = [present |-> TRUE, docs |-> docs]
                  /\ lastInit' = "built"
                  /\ UNCHANGED kbDir

\* load_rag_pipeline() of app.py: ServiceDeskRAG() once per process
Construct ==
    /\ pc = "idle"
    /\ ~inst.alive
    /\ IF ArtifactsPresent THEN LoadStore ELSE BuildVectorStore
    /\ UNCHANGED << pc, genVars, retVars, outcome >>

\* the process ends; the cached pipeline object is gone, the files stay
Shutdown ==
    /\ pc = "idle"
    /\ inst.alive
    /\ inst' = NoInstance
    /\ lastInit' = "none"
    /\ UNCHANGED << fsVars, pc, genVars, retVars, outcome >>

-----------------------------------------------------------------------------
(* The environment: the files the code reads are changed between calls *)

AddFile(f) ==
    /\ pc = "idle"
    /\ kbDir.exists
    /\ f \notin kbDir.files
    /\ kbDir' = [kbDir EXCEPT !.files = @ \cup {f}]
    /\ UNCHANGED << indexFile, docsFile, inst, lastInit, pc, genVars, retVars, outcome >>

RemoveFile(f) ==
    /\ pc = "idle"
    /\ f \in kbDir.files
    /\ kbDir' = [kbDir EXCEPT !.files = @ \ {f}]
    /\ UNCHANGED << indexFile, docsFile, inst, lastInit, pc, genVars, retVars, outcome >>

RemoveDir ==
    /\ pc = "idle"
    /\ kbDir.exists
    /\ kbDir' = NoFiles
    /\ UNCHANGED << indexFile, docsFile, inst, lastInit, pc, genVars, retVars, outcome >>

CreateDir ==
    /\ pc = "idle"
    /\ ~kbDir.exists
    /\ kbDir' = [exists |-> TRUE, files |-> {}]
    /\ UNCHANGED << indexFile, docsFile, inst, lastInit, pc, genVars, retVars, outcome >>

DeleteIndexFile ==
    /\ pc = "idle"
    /\ indexFile.present
    /\ indexFile' = NoIndexFile
    /\ UNCHANGED << kbDir, docsFile, inst, lastInit, pc, genVars, retVars, outcome >>

DeleteDocsFile ==
    /\ pc = "idle"
    /\ docsFile.present
    /\ docsFile' = NoDocsFile
    /\ UNCHANGED << kbDir, indexFile, inst, lastInit, pc, genVars, retVars, outcome >>

-----------------------------------------------------------------------------
(* Generation: _call_gemini_with_backoff and the tail of query *)

\* response.json() of a 200 response whose body parses
JsonOf(r) ==
    CASE r = "http_200_text" -> "json_text"
      [] r = "http_200_no_candidates" -> "json_no_candidates"
      [] OTHER -> "json_bad_structure"

\* lines 173-185 of query: value is what the generation call returned, or
\* "exception" when it raised
QueryAnswer(value, srcs) ==
    CASE value = "json_text" -> Returned(GeneratedText, srcs)
      [] value \in {"None", "json_no_candidates"} -> Returned(InvalidResponse, << >>)
      [] OTHER -> Returned(GenerationError, << >>)     \* except Exception

\* what the caller of the generation call gets
GenOutcome(c, value, srcs) ==
    IF c = "query" THEN QueryAnswer(value, srcs)
    ELSE IF value = "exception" THEN Raised("JSONDecodeError")
    ELSE Returned(value, << >>)

\* one pass too many
LoopContinues_OffByOne(i, n) == i + 1 <= n

\* for i in range(retries): the loop goes on after the i-th pass
LoopContinues(i, n) == i + 1 < n

\* the delay grows by a fixed step instead of doubling
NextDelay_Additive(d) == d + 2

\* delay *= 2
NextDelay(d) == d * 2

\* one pass of the try block, lines 106-116.  jsonErrCaught: with requests
\* 2.27 or later response.json() raises requests.exceptions.JSONDecodeError, a
\* RequestException, which the except clause of the loop catches; with an
\* older requests it raises a ValueError that leaves the call
PostRequest ==
    /\ pc = "attempting"
    /\ \E r \in Responses, jsonErrCaught \in BOOLEAN :
          /\ resps' = Append(resps, r)
          /\ IF StatusIs200(r) /\ r # "http_200_not_json"
             THEN /\ pc' = "done"
                  /\ outcome' = GenOutcome(caller, JsonOf(r), sources)
             ELSE IF StatusIs200(r) /\ ~jsonErrCaught
             THEN /\ pc' = "done"
                  /\ outcome' = GenOutcome(caller, "exception", sources)
             ELSE /\ pc' = "backoff"
                  /\ UNCHANGED outcome
    /\ UNCHANGED << fsVars, inst, lastInit, retVars, caller, retries, delay0,
                    delay, attempt, waits >>

\* lines 118-122: sleep, double the delay, next pass or return None
Sleep ==
    /\ pc = "backoff"
    /\ waits' = Append(waits, delay)
    /\ delay' = NextDelay(delay)
    /\ attempt' = attempt + 1
    /\ IF LoopContinues(attempt, retries)
       THEN /\ pc' = "attempting"
            /\ UNCHANGED outcome
       ELSE /\ pc' = "done"
            /\ outcome' = GenOutcome(caller, "None", sources)
    /\ UNCHANGED << fsVars, inst, lastInit, retVars, caller, retries, delay0, resps >>

\* a call of _call_gemini_with_backoff(payload, retries=n, delay=d)
StartGeneration(c, n, d) ==
    /\ pc' = "attempting"
    /\ caller' = c
    /\ retries' = n
    /\ delay0' = d
    /\ delay' = d
    /\ attempt' = 0
    /\ resps' = << >>
    /\ waits' = << >>
    /\ outcome' = NoOutcome

\* query(user_question), lines 124-174: retrieval, the refusal, the call
Query(q) ==
    /\ pc = "idle"
    /\ inst.alive
    /\ \E strictK \in BOOLEAN :
          LET r == RetrieveContext(inst, kbDir, q, QueryK, strictK)
          IN  /\ qArg' = q
              /\ kArg' = QueryK
              /\ chunks' = r.chunks
              /\ sources' = r.sources
              /\ hits' = r.hits
              /\ IF r.raised
                 THEN /\ pc' = "done"
                      /\ caller' = "query"
                      /\ outcome' = Raised(r.exc)
                      /\ UNCHANGED << retries, delay0, delay, attempt, resps, waits >>
                 ELSE IF r.chunks = << >>
                 THEN /\ pc' = "done"
                      /\ caller' = "query"
                      /\ outcome' = Returned(NoRelevantInfo, << >>)
                      /\ UNCHANGED << retries, delay0, delay, attempt, resps, waits >>
                 ELSE StartGeneration("query", DefaultRetries, DefaultDelay)
    /\ UNCHANGED << fsVars, inst, lastInit >>

\* _retrieve_context(query_text, k) called on its own
Retrieve(q, k) ==
    /\ pc = "idle"
    /\ inst.alive
    /\ \E strictK \in BOOLEAN :
          LET r == RetrieveContext(inst, kbDir, q, k, strictK)
          IN  /\ qArg' = q
              /\ kArg' = k
              /\ chunks' = r.chunks
              /\ sources' = r.sources
              /\ hits' = r.hits
              /\ outcome' = IF r.raised THEN Raised(r.exc) ELSE Returned("", r.sources)
    /\ pc' = "done"
    /\ caller' = "retrieve"
    /\ UNCHANGED << fsVars, inst, lastInit, retries, delay0, delay, attempt, resps, waits >>

\* _call_gemini_with_backoff(payload, n, d) called on its own
Generate(n, d) ==
    /\ pc = "idle"
    /\ inst.alive
    /\ StartGeneration("generate", n, d)
    /\ UNCHANGED << fsVars, inst, lastInit, retVars >>

\* the caller has its result; the locals of the call are gone
Finish ==
    /\ pc = "done"
    /\ pc' = "idle"
    /\ caller' = "none"
    /\ kArg' = 0
    /\ qArg' = ""
    /\ chunks' = << >>
    /\ sources' = << >>
    /\ hits' = << >>
    /\ retries' = 0
    /\ delay0' = 0
    /\ delay' = 0
    /\ attempt' = 0
    /\ resps' = << >>
    /\ waits' = << >>
    /\ outcome' = NoOutcome
    /\ UNCHANGED << fsVars, inst, lastInit >>

-----------------------------------------------------------------------------
(* Specifications *)

Init ==
    /\ kbDir \in {[exists |-> TRUE, files |-> S] : S \in SUBSET Names}
    /\ indexFile = NoIndexFile
    /\ docsFile = NoDocsFile
    /\ inst = NoInstance
    /\ lastInit = "none"
    /\ pc = "idle"
    /\ caller = "none"
    /\ kArg = 0
    /\ qArg = ""
    /\ chunks = << >>
    /\ sources = << >>
    /\ hits = << >>
    /\ retries = 0
    /\ delay0 = 0
    /\ delay = 0
    /\ attempt = 0
    /\ resps = << >>
    /\ waits = << >>
    /\ outcome = NoOutcome

\* the pipeline as app.py uses it, its files changing under it
Next ==
    \/ Construct
    \/ Shutdown
    \/ \E f \in Names : AddFile(f)
    \/ \E f \in Names : RemoveFile(f)
    \/ RemoveDir
    \/ CreateDir
    \/ DeleteIndexFile
    \/ DeleteDocsFile
    \/ \E q \in Questions : Query(q)
    \/ \E q \in Questions, k \in 0..MaxK : Retrieve(q, k)
    \/ PostRequest
    \/ Sleep
    \/ Finish

Spec == Init /\ [][Next]_vars

\* the generation client alone, over its two parameters
NextGen ==
    \/ Construct
    \/ \E n \in 1..MaxRetries, d \in 1..MaxDelay : Generate(n, d)
    \/ PostRequest
    \/ Sleep
    \/ Finish

SpecGen == Init /\ [][NextGen]_vars

-----------------------------------------------------------------------------
(* Vocabulary of the properties *)

QueryCall == caller = "query" /\ pc # "idle"
QueryDone == caller = "query" /\ pc = "done"
RetrieveDone == caller = "retrieve" /\ pc = "done"
GenerationCall == pc # "idle" /\ caller \in {"query", "generate"} /\ retries > 0

\* a request that failed: transport error or non-2xx status
Failed(r) == r \in {"transport_error", "http_500"}

\* a 2xx response whose body is not the candidates/content/parts/text structure
Malformed(r) == r \in {"http_200_no_candidates", "http_200_bad_structure",
                       "http_200_not_json"}

Min(a, b) == IF a < b THEN a ELSE b

RECURSIVE Pow2(_)
Pow2(n) == IF n = 0 THEN 1 ELSE 2 * Pow2(n - 1)

RECURSIVE SumSeq(_)
SumSeq(sq) == IF sq = << >> THEN 0 ELSE Head(sq) + SumSeq(Tail(sq))

\* the pipeline was built over an existing, empty corpus
BuiltOverEmptyCorpus == inst.alive /\ lastInit = "built" /\ inst.documents = << >>

\* the corpus directory holds what the documents of the pipeline were read from
CorpusAsBuilt == kbDir.exists /\ LoadDocuments(kbDir.files) = inst.documents

\* chunks and sources of the last retrieval agree position by position
Aligned ==
    /\ Len(chunks) = Len(sources)
    /\ \A n \in 1..Len(chunks) :
          n <= Len(sources) => sources[n] \in kbDir.files /\ Content(sources[n]) = chunks[n]

\* the two files are there from one build, or neither is there
ArtifactsTogether ==
    \/ ~indexFile.present /\ ~docsFile.present
    \/ /\ indexFile.present
       /\ docsFile.present
       /\ Len(indexFile.rows) = Len(docsFile.docs)
       /\ indexFile.rows = EncodeAll(docsFile.docs)

\* both files are there when the step starts
BothExistBefore == indexFile.present /\ docsFile.present

\* a step in which a construction completes
Constructed == ~inst.alive /\ inst'.alive

-----------------------------------------------------------------------------
(* C1 *)

\* C1: every call of query returns an (answer, sources) pair; none raises.
C1_QueryNeverRaises == QueryDone => outcome.kind = "returned"

-----------------------------------------------------------------------------
(* C2 *)

\* C2: when the first two requests of a generation call fail (transport error
\* or non-2xx) and the third succeeds, the call has made exactly 3 requests,
\* has waited d and then 2d and nothing more, and hands back the response of
\* the third request.
C2_FailTwiceThenSucceed ==
    ( /\ GenerationCall
      /\ Len(resps) >= 3
      /\ Failed(resps[1])
      /\ Failed(resps[2])
      /\ StatusIs200(resps[3])
      /\ resps[3] # "http_200_not_json" )
    => /\ pc = "done"
       /\ Len(resps) = 3
       /\ waits = << delay0, 2 * delay0 >>
       /\ caller = "generate" => outcome = Returned(JsonOf(resps[3]), << >>)
       /\ caller = "query" /\ resps[3] = "http_200_text"
             => outcome = Returned(GeneratedText, sources)

C2_Witness ==
    /\ caller = "generate"
    /\ pc = "done"
    /\ delay0 = 3
    /\ resps = << "transport_error", "http_500", "http_200_text" >>
    /\ waits = << 3, 6 >>
    /\ outcome = Returned("json_text", << >>)

-----------------------------------------------------------------------------
(* C3 *)

\* C3: a query that retrieved a chunk and whose every request got a non-2xx
\* status makes exactly 5 requests and then returns the invalid-response
\* answer with no sources; it does not raise.
C3_Exhaustion ==
    ( /\ QueryCall
      /\ chunks # << >>
      /\ \A n \in 1..Len(resps) : resps[n] = "http_500" )
    => /\ Len(resps) <= 5
       /\ pc = "done" => /\ Len(resps) = 5
                         /\ outcome = Returned(InvalidResponse, << >>)
       /\ Len(resps) = 5 /\ pc # "done" => pc = "backoff"

C3_Witness ==
    /\ QueryDone
    /\ chunks # << >>
    /\ resps = << "http_500", "http_500", "http_500", "http_500", "http_500" >>
    /\ outcome = Returned(InvalidResponse, << >>)

-----------------------------------------------------------------------------
(* C4 *)

\* C4: a 2xx response ends the generation call: no request follows it, and a
\* query that got a malformed 2xx body returns a degraded answer at once.
C4_No2xxRetried ==
    GenerationCall =>
       /\ \A n \in 1..Len(resps) : Is2xx(resps[n]) => n = Len(resps) /\ pc = "done"
       /\ ( /\ caller = "query"
            /\ resps # << >>
            /\ Malformed(resps[Len(resps)]) )
          => /\ outcome.kind = "returned"
             /\ outcome.answer \in {InvalidResponse, GenerationError}
             /\ outcome.sources = << >>

-----------------------------------------------------------------------------
(* C5 *)

-----------------------------------------------------------------------------
(* C6 *)

\* C6: on a pipeline built over an existing, empty corpus every retrieval
\* returns ([], []) and every query returns (NoRelevantInfo, []).
C6_EmptyCorpusAnswers ==
    BuiltOverEmptyCorpus =>
       /\ RetrieveDone => /\ outcome = Returned("", << >>)
                          /\ chunks = << >>
                          /\ sources = << >>
       /\ QueryDone => outcome = Returned(NoRelevantInfo, << >>)

-----------------------------------------------------------------------------
(* C7 *)

\* C7: a retrieval with k over an index of N rows returns min(k, N) chunks and
\* min(k, N) sources, nearest first, each from a row the search found, no row
\* twice.
C7_NoPadding ==
    RetrieveDone /\ outcome.kind = "returned" =>
       LET N == Len(inst.index)
           qv == Encode(qArg)
       IN  /\ Len(chunks) = Min(kArg, N)
           /\ Len(sources) = Min(kArg, N)
           /\ \A n \in 1..Len(hits) : hits[n] >= 0 /\ hits[n] < N
           /\ \A m, n \in 1..Len(hits) : m # n => hits[m] # hits[n]
           /\ \A m, n \in 1..Len(hits) :
                 (m < n /\ hits[m] >= 0 /\ hits[n] >= 0 /\ hits[m] < N /\ hits[n] < N)
                    => Dist(inst.index[hits[m] + 1], qv) <= Dist(inst.index[hits[n] + 1], qv)

-----------------------------------------------------------------------------
(* C8 *)

\* C8 as stated: at every query, whatever constructions, restarts and corpus
\* changes came before, chunks and sources have the same length and each
\* source names the corpus file whose text is the chunk at its position.
C8_AlignedAlways ==
    QueryCall /\ outcome.kind # "raised" => Aligned

\* C8 as amended: the alignment holds at every retrieval (of a query or
\* called directly) made while the corpus directory holds the .txt files the
\* documents in use were read from.
C8_AlignedWhileCorpusUnchanged ==
    ( /\ pc # "idle"
      /\ caller \in {"query", "retrieve"}
      /\ outcome.kind # "raised"
      /\ CorpusAsBuilt )
    => Aligned

\* after a restart the pipeline is loaded from the two files and a query over
\* the unchanged two-file corpus is attributed to the right file
C8_Witness ==
    /\ QueryDone
    /\ lastInit = "loaded"
    /\ CorpusAsBuilt
    /\ Len(inst.documents) = 2
    /\ qArg = "My VPN won't connect"
    /\ chunks = << Content("vpn.txt") >>
    /\ sources = << "vpn.txt" >>
    /\ outcome = Returned(GeneratedText, << "vpn.txt" >>)

-----------------------------------------------------------------------------
(* C9 *)

\* C9: in a generation call with initial delay d and n attempts, the wait
\* after the j-th failed attempt is d*2^(j-1), the waits sum to at most
\* d*(2^n - 1), at most n requests are made, and every wait is followed by a
\* further attempt.
C9_BackoffSchedule ==
    GenerationCall =>
       /\ \A j \in 1..Len(waits) : waits[j] = delay0 * Pow2(j - 1)
       /\ SumSeq(waits) <= delay0 * (Pow2(retries) - 1)
       /\ Len(resps) <= retries
       /\ Len(waits) <= Len(resps)
       /\ pc = "done" => Len(waits) < Len(resps)

-----------------------------------------------------------------------------
(* C10 *)

\* C10 as stated: when a construction completes, both files exist and come
\* from one build, or neither exists; it loaded exactly when both files
\* existed beforehand and rebuilt otherwise.
C10_TogetherAfterConstruction ==
    [][ Constructed =>
          /\ ArtifactsTogether'
          /\ (lastInit' = "loaded") <=> BothExistBefore
          /\ (lastInit' = "built") <=> ~BothExistBefore ]_vars

\* C10 as amended: a construction loads, leaving the files as they are, exactly
\* when both exist beforehand; otherwise it builds, and then it writes both
\* files from the same documents when the corpus has a .txt file, and writes
\* nothing, leaving the files as they were, when the corpus has none.
C10_WrittenTogether ==
    [][ Constructed =>
          /\ (lastInit' = "loaded") <=> BothExistBefore
          /\ (lastInit' = "built") <=> ~BothExistBefore
          /\ lastInit' = "loaded" =>
                /\ UNCHANGED fsVars
                /\ inst'.index = indexFile.rows
                /\ inst'.documents = docsFile.docs
          /\ lastInit' = "built" /\ LoadDocuments(kbDir.files) # << >> =>
                /\ indexFile'.present
                /\ docsFile'.present
                /\ docsFile'.docs = LoadDocuments(kbDir.files)
                /\ ArtifactsTogether'
                /\ inst'.documents = docsFile'.docs
                /\ inst'.index = indexFile'.rows
          /\ lastInit' = "built" /\ LoadDocuments(kbDir.files) = << >> =>
                UNCHANGED fsVars ]_vars

\* a construction over an empty corpus has completed next to a lone index file
C10_Witness ==
    /\ BuiltOverEmptyCorpus
    /\ kbDir.exists
    /\ LoadDocuments(kbDir.files) = << >>
    /\ indexFile.present
    /\ ~docsFile.present

====
